---- MODULE Spec2Model ----
(***************************************************************************)
(* Model of wikidump_auto.py: main runs latest_torrent_url,                *)
(* download_torrent, push_to_qb and prune_old_dumps in sequence.           *)
(*                                                                         *)
(* Strings are sequences of tokens.  A token is either a single separator  *)
(* ("/", "-"), one of the literals the two regular expressions look for,   *)
(* a run of digits, or an opaque run of other characters.  No literal of   *)
(* a regular expression spans two tokens, and digit runs are maximal.      *)
(***************************************************************************)
EXTENDS Integers, Sequences, FiniteSets, TLC

\* ------------------------------------------------------------------------
\* bounds of the model
\* ------------------------------------------------------------------------
MaxLinks == 3
MaxFiles == 3
MaxChunks == 2

\* ------------------------------------------------------------------------
\* tokens and strings
\* ------------------------------------------------------------------------

\* str.lower() on a token, as re.I compares
Lower(tok) ==
    CASE tok = "ENWIKI-" -> "enwiki-"
      [] tok = "PAGES-ARTICLES-MULTISTREAM" -> "pages-articles-multistream"
      [] tok = ".TORRENT" -> ".torrent"
      [] tok = ".BZ2" -> ".bz2"
      [] tok = ".XML" -> ".xml"
      [] OTHER -> tok

\* number of characters of a token when it is a run of digits, else 0
DigitRun(tok) ==
    CASE tok = "20231201" -> 8
      [] tok = "20240101" -> 8
      [] tok = "20240201" -> 8
      [] tok = "2024" -> 4
      [] OTHER -> 0

\* str.startswith
StartsWith(s, prefix) ==
    /\ Len(s) >= Len(prefix)
    /\ SubSeq(s, 1, Len(prefix)) = prefix

\* str.endswith
EndsWith(s, suffix) ==
    /\ Len(s) >= Len(suffix)
    /\ SubSeq(s, Len(s) - Len(suffix) + 1, Len(s)) = suffix

\* os.path.basename: what follows the last "/"
RECURSIVE basename(_)
basename(s) ==
    IF s = << >> THEN << >>
    ELSE IF s[Len(s)] = "/" THEN << >>
    ELSE Append(basename(SubSeq(s, 1, Len(s) - 1)), s[Len(s)])

META_URL == <<"https:", "/", "/", "meta.wikimedia.org", "/", "wiki", "/", "Data_dump_torrents">>

\* the pattern searched in the trailing path segment only
TORRENT_NAME_RE_search_segment(s) ==
    LET t == basename(s) IN
    \E i, j \in 1..Len(t) :
        /\ i < j
        /\ j < Len(t)
        /\ Lower(t[i]) = "enwiki-"
        /\ Lower(t[j]) = "pages-articles-multistream"
        /\ Lower(t[Len(t)]) = ".torrent"

\* re.compile(r"enwiki-.*pages-articles-multistream.*\.torrent$", re.I).search(s):
\* "." matches "/" as well, so the match may span path segments
TORRENT_NAME_RE_search(s) ==
    \E i, j \in 1..Len(s) :
        /\ i < j
        /\ j < Len(s)
        /\ Lower(s[i]) = "enwiki-"
        /\ Lower(s[j]) = "pages-articles-multistream"
        /\ Lower(s[Len(s)]) = ".torrent"

\* re.compile(r"enwiki-\d{8}-pages-articles-multistream.*\.bz2$", re.I).match(s)
DUMP_FILE_RE_match(s) ==
    /\ Len(s) >= 5
    /\ Lower(s[1]) = "enwiki-"
    /\ DigitRun(s[2]) = 8
    /\ s[3] = "-"
    /\ Lower(s[4]) = "pages-articles-multistream"
    /\ Lower(s[Len(s)]) = ".bz2"

\* ------------------------------------------------------------------------
\* latest_torrent_url: the loop over soup.find_all("a", href=True)
\* ------------------------------------------------------------------------
NotFound == <<"RuntimeError">>

\* lines 51-55: the three return statements
absolute(href) ==
    IF StartsWith(href, <<"/", "/">>) THEN <<"https:">> \o href
    ELSE IF StartsWith(href, <<"/">>) THEN <<"https:", "/", "/", "meta.wikimedia.org">> \o href
    ELSE href

\* lines 48-56: first href the pattern is found in, made absolute; else raise
RECURSIVE scan_links(_)
scan_links(hrefs) ==
    IF hrefs = << >> THEN NotFound
    ELSE IF TORRENT_NAME_RE_search(Head(hrefs)) THEN absolute(Head(hrefs))
    ELSE scan_links(Tail(hrefs))

\* ------------------------------------------------------------------------
\* state
\* ------------------------------------------------------------------------
VARIABLES
    pc,            \* position of main: which call it is in
    args,          \* argparse namespace (lines 116-125)
    started,       \* the stage functions main has called so far, in order
    failed,        \* the stage whose exception reached main's except clause
    err,           \* the exception raised
    errLog,        \* number of logging.error calls
    exitCode,      \* value main returned (-1: not returned yet)
    html,          \* latest_torrent_url: the page fetched
    url,           \* main: url
    fn,            \* download_torrent: fn
    resp,          \* download_torrent: r
    tmp,           \* files of tempfile.gettempdir(): name -> chunks written
    tmp0,          \* tmp when main was entered
    torrent_path,  \* main: torrent_path
    saveDir,       \* what args.save_dir names: "absent", "file" or "dir"
    saveDir0,      \* saveDir when main was entered
    created,       \* push_to_qb: save_dir.mkdir succeeded
    addCalls,      \* qbt.torrents_add calls issued
    fs,            \* entries at and below args.save_dir: path -> mtime (days)
    fs0,           \* fs when main was entered
    cutoff,        \* prune_old_dumps: cutoff
    todo,          \* prune_old_dumps: entries iterdir has still to yield
    cur,           \* prune_old_dumps: file
    removed,       \* prune_old_dumps: removed
    unlinked,      \* paths prune_old_dumps called unlink on
    prunedLog,     \* count logged by line 108 (-1: not logged)
    extRemoved     \* paths another process removed while the pruner ran

ctlVars == <<pc, failed, err>>
mainVars == <<args, errLog, exitCode>>
resolverVars == <<html, url>>
fetchVars == <<fn, resp, tmp, tmp0, torrent_path>>
submitVars == <<saveDir, saveDir0, created, addCalls>>
pruneVars == <<cutoff, todo, cur, removed, unlinked, prunedLog>>
fsVars == <<fs, fs0, extRemoved>>
vars == <<ctlVars, started, mainVars, resolverVars, fetchVars, submitVars, pruneVars, fsVars>>

\* a raise inside stage `stage` unwinds to main's except clause (line 136)
Raise(stage, e) ==
    /\ pc' = "raised"
    /\ failed' = stage
    /\ err' = e

Goto(label) ==
    /\ pc' = label
    /\ UNCHANGED <<failed, err>>

\* ------------------------------------------------------------------------
\* inputs
\* ------------------------------------------------------------------------
TorrentFile == <<"enwiki-", "20240101", "-", "pages-articles-multistream", ".xml", ".bz2", ".torrent">>

HrefAbsolute == <<"https:", "/", "/", "dl.example", "/">> \o TorrentFile
HrefProtocolRelative == <<"/", "/", "dl.example", "/">> \o TorrentFile
HrefRootRelative ==
    <<"/", "torrents", "/", "ENWIKI-", "20240201", "-", "PAGES-ARTICLES-MULTISTREAM", ".XML", ".BZ2", ".TORRENT">>
HrefRelative == TorrentFile
HrefDirectory == <<"/", "enwiki-", "20240101", "/", "pages-articles-multistream", ".xml", ".bz2", ".torrent">>
HrefOtherWiki == <<"/", "dewiki-", "20240101", "-", "pages-articles-multistream", ".xml", ".bz2", ".torrent">>
HrefArticle == <<"/", "wiki", "/", "Main_Page">>

Hrefs ==
    {HrefAbsolute, HrefProtocolRelative, HrefRootRelative, HrefRelative,
     HrefDirectory, HrefOtherWiki, HrefArticle}

\* sequences over S of length at most n
SeqUpTo(S, n) == UNION {[1..k -> S] : k \in 0..n}

\* the href attributes of the <a> elements of an index page, in document order
Pages == SeqUpTo(Hrefs, MaxLinks)
FewPages == {<<HrefArticle, HrefAbsolute>>, <<HrefArticle>>}

\* HTTP responses: status and body (the chunks iter_content yields)
Statuses == {200, 304, 404, 503}
Bodies == {[i \in 1..n |-> i] : n \in 0..MaxChunks}
Responses == {[status |-> st, body |-> b] : st \in Statuses, b \in Bodies}
FewResponses == {[status |-> 200, body |-> [i \in 1..1 |-> i]], [status |-> 404, body |-> << >>]}
NoResponse == [status |-> 0, body |-> << >>]

\* a requests.get call: either it raises (timeout, refused) or it yields one of S
Fetch(S) == {[ok |-> FALSE, value |-> << >>]} \cup {[ok |-> TRUE, value |-> v] : v \in S}

\* argument vectors: defaults of lines 117-123, and other retention/category values
ArgSets ==
    {[save_dir |-> "/mnt/wiki/enwiki", category |-> "wikipedia", retention |-> 30],
     [save_dir |-> "/mnt/wiki/enwiki", category |-> "dumps", retention |-> 0],
     [save_dir |-> "/mnt/wiki/enwiki", category |-> "wikipedia", retention |-> 0 - 1]}

\* datetime.now() of line 94, in days; modification times are days on the same clock
Now == 100
MTimes == {Now - 40, Now - 30, Now - 5}

DumpName(date) == <<"enwiki-", date, "-", "pages-articles-multistream", "1", ".xml", ".bz2">>

\* a path below args.save_dir: the directory it lies in ("." is save_dir itself),
\* its name, and what kind of entry it is
Entry(parent, name, kind) == [parent |-> parent, name |-> name, kind |-> kind]

DumpOld == Entry(".", DumpName("20240101"), "file")
DumpNew == Entry(".", DumpName("20240201"), "file")
DumpInProgress == Entry(".", DumpName("20240101") \o <<".!qB">>, "file")
DumpUpper ==
    Entry(".", <<"ENWIKI-", "20240101", "-", "PAGES-ARTICLES-MULTISTREAM", ".XML", ".BZ2">>, "file")
DumpShortDate ==
    Entry(".", <<"enwiki-", "2024", "-", "pages-articles-multistream", ".xml", ".bz2">>, "file")
Notes == Entry(".", <<"notes", ".txt">>, "file")
SubDir == Entry(".", DumpName("20231201"), "dir")
Nested == Entry("sub", DumpName("20240101"), "file")

Entries == {DumpOld, DumpNew, DumpInProgress, DumpUpper, DumpShortDate, Notes, SubDir, Nested}

\* contents of an existing save directory: at most n entries, a nested file only
\* below its directory
DirContents(E, n) ==
    UNION {[S -> MTimes] : S \in {T \in SUBSET E : Cardinality(T) <= n /\ (Nested \in T => SubDir \in T)}}

NoFiles == [p \in {} |-> 0]

\* what args.save_dir names when main is entered
Worlds(E, n) ==
    {[saveDir |-> "absent", fs |-> NoFiles], [saveDir |-> "file", fs |-> NoFiles]}
        \cup {[saveDir |-> "dir", fs |-> c] : c \in DirContents(E, n)}
FewWorlds == Worlds({DumpOld}, 1)

\* the temporary directory when main is entered: empty, or holding an earlier
\* download under each name a download can take
Stale == <<0>>
TmpNames == {basename(absolute(h)) : h \in {g \in Hrefs : TORRENT_NAME_RE_search(g)}}
TmpDirs == {[n \in {} |-> << >>], [n \in TmpNames |-> Stale]}
FewTmpDirs == {[n \in {} |-> << >>]}

NoEntry == Entry("", << >>, "none")

Init(WorldSet, TmpSet) ==
    /\ pc = "start"
    /\ args \in ArgSets
    /\ started = << >>
    /\ failed = "none"
    /\ err = "none"
    /\ errLog = 0
    /\ exitCode = 0 - 1
    /\ html = << >>
    /\ url = << >>
    /\ fn = << >>
    /\ resp = NoResponse
    /\ tmp \in TmpSet
    /\ tmp0 = tmp
    /\ torrent_path = << >>
    /\ \E w \in WorldSet :
        /\ saveDir = w.saveDir
        /\ saveDir0 = w.saveDir
        /\ fs = w.fs
        /\ fs0 = w.fs
    /\ created = FALSE
    /\ addCalls = << >>
    /\ cutoff = 0
    /\ todo = {}
    /\ cur = NoEntry
    /\ removed = 0
    /\ unlinked = {}
    /\ prunedLog = 0 - 1
    /\ extRemoved = {}

\* ------------------------------------------------------------------------
\* stage 1: latest_torrent_url (lines 42-56)
\* ------------------------------------------------------------------------

\* line 45: requests.get(META_URL, timeout=30).text
ResolverFetch(PageSet) ==
    /\ pc = "start"
    /\ started' = Append(started, "resolve")
    /\ \E r \in Fetch(PageSet) :
        IF r.ok
        THEN /\ html' = r.value
             /\ Goto("scan")
        ELSE /\ html' = html
             /\ Raise("resolve", "ConnectionError")
    /\ UNCHANGED <<mainVars, url, fetchVars, submitVars, pruneVars, fsVars>>

\* lines 48-56: the loop and the raise after it
ResolverScan ==
    /\ pc = "scan"
    /\ LET r == scan_links(html) IN
        IF r = NotFound
        THEN /\ url' = url
             /\ Raise("resolve", "RuntimeError")
        ELSE /\ url' = r
             /\ Goto("resolved")
    /\ UNCHANGED <<started, mainVars, html, fetchVars, submitVars, pruneVars, fsVars>>

\* ------------------------------------------------------------------------
\* stage 2: download_torrent (lines 59-67)
\* ------------------------------------------------------------------------

\* requests accepts only a URL that names its scheme and host
IsAbsoluteUrl(u) ==
    /\ Len(u) >= 4
    /\ u[1] \in {"https:", "http:"}
    /\ u[2] = "/"
    /\ u[3] = "/"
    /\ u[4] # "/"

\* Response.raise_for_status raises for the 4xx and 5xx statuses
raises_for_status(status) == 400 <= status /\ status < 600

\* a file opened without truncation keeps what it held
open_wb_keep(files, name) ==
    [n \in DOMAIN files \cup {name} |-> IF n \in DOMAIN files THEN files[n] ELSE << >>]

\* Path.open("wb"): the file exists afterwards and is empty
open_wb(files, name) ==
    [n \in DOMAIN files \cup {name} |-> IF n = name THEN << >> ELSE files[n]]

\* lines 61-63: fn, and the requests.get of the with statement
DownloadGet(ResponseSet) ==
    /\ pc = "resolved"
    /\ started' = Append(started, "fetch")
    /\ html' = << >>
    /\ fn' = basename(url)
    /\ IF ~IsAbsoluteUrl(url)
       THEN /\ resp' = resp
            /\ Raise("fetch", "MissingSchema")
       ELSE \E r \in Fetch(ResponseSet) :
            IF r.ok
            THEN /\ resp' = r.value
                 /\ Goto("dl_open")
            ELSE /\ resp' = resp
                 /\ Raise("fetch", "ConnectionError")
    /\ UNCHANGED <<mainVars, url, tmp, tmp0, torrent_path, submitVars, pruneVars, fsVars>>

\* line 63: fn.open("wb"), entered after the response has arrived
DownloadOpen ==
    /\ pc = "dl_open"
    /\ tmp' = open_wb(tmp, fn)
    /\ Goto("dl_status")
    /\ UNCHANGED <<started, mainVars, resolverVars, fn, resp, tmp0, torrent_path,
                   submitVars, pruneVars, fsVars>>

\* line 64: r.raise_for_status()
DownloadRaiseForStatus ==
    /\ pc = "dl_status"
    /\ IF raises_for_status(resp.status)
       THEN Raise("fetch", "HTTPError")
       ELSE Goto("dl_stream")
    /\ UNCHANGED <<started, mainVars, resolverVars, fetchVars, submitVars, pruneVars, fsVars>>

\* lines 65-66: one chunk of r.iter_content written
DownloadWrite ==
    /\ pc = "dl_stream"
    /\ Len(tmp[fn]) < Len(resp.body)
    /\ tmp' = [tmp EXCEPT ![fn] = Append(@, resp.body[Len(@) + 1])]
    /\ Goto("dl_stream")
    /\ UNCHANGED <<started, mainVars, resolverVars, fn, resp, tmp0, torrent_path,
                   submitVars, pruneVars, fsVars>>

\* line 65: the connection breaks while iter_content reads the next chunk
DownloadStreamError ==
    /\ pc = "dl_stream"
    /\ Len(tmp[fn]) < Len(resp.body)
    /\ Raise("fetch", "ConnectionError")
    /\ UNCHANGED <<started, mainVars, resolverVars, fetchVars, submitVars, pruneVars, fsVars>>

\* line 67: return fn, assigned to torrent_path by line 132
DownloadReturn ==
    /\ pc = "dl_stream"
    /\ Len(tmp[fn]) = Len(resp.body)
    /\ torrent_path' = fn
    /\ Goto("downloaded")
    /\ UNCHANGED <<started, mainVars, resolverVars, fn, resp, tmp, tmp0,
                   submitVars, pruneVars, fsVars>>

\* ------------------------------------------------------------------------
\* stage 3: push_to_qb (lines 70-89)
\* ------------------------------------------------------------------------

\* a login whose rejection is noted but not raised
QbLogin_ignore_rejection ==
    /\ pc = "downloaded"
    /\ started' = Append(started, "submit")
    /\ \E outcome \in {"ok", "LoginFailed", "APIConnectionError"} :
        IF outcome = "APIConnectionError"
        THEN Raise("submit", outcome)
        ELSE /\ pc' = "qb_dir"
             /\ failed' = failed
             /\ err' = IF outcome = "ok" THEN err ELSE outcome
    /\ UNCHANGED <<mainVars, resolverVars, fetchVars, submitVars, pruneVars, fsVars>>

\* lines 73-75: qbt.auth_log_in(), then the version requests of the log line
QbLogin ==
    /\ pc = "downloaded"
    /\ started' = Append(started, "submit")
    /\ \E outcome \in {"ok", "LoginFailed", "APIConnectionError"} :
        IF outcome = "ok"
        THEN Goto("qb_dir")
        ELSE Raise("submit", outcome)
    /\ UNCHANGED <<mainVars, resolverVars, fetchVars, submitVars, pruneVars, fsVars>>

\* push_to_qb without lines 77-79
QbEnsureDir_skip ==
    /\ pc = "qb_dir"
    /\ Goto("qb_add")
    /\ UNCHANGED <<started, mainVars, resolverVars, fetchVars, submitVars, pruneVars, fsVars>>

\* lines 77-79: if not save_dir.is_dir(): save_dir.mkdir(parents=True, exist_ok=True)
QbEnsureDir ==
    /\ pc = "qb_dir"
    /\ IF saveDir = "dir"
       THEN /\ Goto("qb_add")
            /\ UNCHANGED <<saveDir, created>>
       ELSE IF saveDir = "file"
       THEN /\ Raise("submit", "FileExistsError")
            /\ UNCHANGED <<saveDir, created>>
       ELSE \E ok \in BOOLEAN :
            IF ok
            THEN /\ saveDir' = "dir"
                 /\ created' = TRUE
                 /\ Goto("qb_add")
            ELSE /\ Raise("submit", "PermissionError")
                 /\ UNCHANGED <<saveDir, created>>
    /\ UNCHANGED <<started, mainVars, resolverVars, fetchVars, saveDir0, addCalls, pruneVars, fsVars>>

\* lines 81-88: qbt.torrents_add(...); the API may answer with an error
AddCall(paused) ==
    [torrent_files |-> tmp[torrent_path],
     save_path |-> args.save_dir,
     category |-> args.category,
     use_auto_torrent_management |-> FALSE,
     paused |-> paused,
     save_dir_state |-> saveDir]

QbTorrentsAdd ==
    /\ pc = "qb_add"
    /\ addCalls' = Append(addCalls, AddCall(FALSE))
    /\ \E ok \in BOOLEAN :
        IF ok
        THEN Goto("pushed")
        ELSE Raise("submit", "APIError")
    /\ UNCHANGED <<started, mainVars, resolverVars, fetchVars, saveDir, saveDir0, created, pruneVars, fsVars>>

\* ------------------------------------------------------------------------
\* stage 4: prune_old_dumps (lines 92-108)
\* ------------------------------------------------------------------------

\* Path.is_file(): False for a missing path
is_file(files, p) == p \in DOMAIN files /\ p.kind = "file"

\* the loop without the test of lines 99-100
skips_no_pattern(files, p) ==
    \/ ~is_file(files, p)
    \/ EndsWith(p.name, <<".!qB">>)

\* lines 97-103: the three `continue` tests
skips(files, p) ==
    \/ ~is_file(files, p)
    \/ ~DUMP_FILE_RE_match(p.name)
    \/ EndsWith(p.name, <<".!qB">>)

\* line 104 with <= for <
is_old_or_equal(mtime, limit) == mtime <= limit

\* line 104: datetime.fromtimestamp(file.stat().st_mtime) < cutoff
is_old(mtime, limit) == mtime < limit

\* Path.unlink(missing_ok=True)
unlink(files, p) == [q \in DOMAIN files \ {p} |-> files[q]]

\* lines 94-96: cutoff, removed = 0, and the listing directory.iterdir() walks
PruneStart ==
    /\ pc = "pushed"
    /\ started' = Append(started, "prune")
    /\ cutoff' = Now - args.retention
    /\ removed' = 0
    /\ todo' = {p \in DOMAIN fs : p.parent = "."}
    /\ Goto("pr_loop")
    /\ UNCHANGED <<mainVars, resolverVars, fetchVars, submitVars, cur, unlinked, prunedLog, fsVars>>

\* lines 96-103: the next entry of the listing, in any order
PruneNext ==
    /\ pc = "pr_loop"
    /\ \E p \in todo :
        /\ todo' = todo \ {p}
        /\ IF skips(fs, p)
           THEN /\ cur' = cur
                /\ Goto("pr_loop")
           ELSE /\ cur' = p
                /\ Goto("pr_stat")
    /\ UNCHANGED <<started, mainVars, resolverVars, fetchVars, submitVars,
                   cutoff, removed, unlinked, prunedLog, fsVars>>

\* line 104: file.stat() raises FileNotFoundError for a path that is gone
PruneStat ==
    /\ pc = "pr_stat"
    /\ IF cur \notin DOMAIN fs
       THEN Raise("prune", "FileNotFoundError")
       ELSE IF is_old(fs[cur], cutoff)
       THEN Goto("pr_unlink")
       ELSE Goto("pr_loop")
    /\ UNCHANGED <<started, mainVars, resolverVars, fetchVars, submitVars, pruneVars, fsVars>>

\* lines 105-107: unlink and count; the unlink may be refused
PruneUnlink ==
    /\ pc = "pr_unlink"
    /\ \E ok \in BOOLEAN :
        IF ok
        THEN /\ fs' = unlink(fs, cur)
             /\ unlinked' = unlinked \cup {cur}
             /\ removed' = removed + 1
             /\ Goto("pr_loop")
        ELSE /\ Raise("prune", "PermissionError")
             /\ UNCHANGED <<fs, unlinked, removed>>
    /\ UNCHANGED <<started, mainVars, resolverVars, fetchVars, submitVars,
                   cutoff, todo, cur, prunedLog, fs0, extRemoved>>

\* line 108: the count is logged and the function returns
PruneReturn ==
    /\ pc = "pr_loop"
    /\ todo = {}
    /\ prunedLog' = removed
    /\ Goto("pruned")
    /\ UNCHANGED <<started, mainVars, resolverVars, fetchVars, submitVars,
                   cutoff, todo, cur, removed, unlinked, fsVars>>

\* another process removes a listed file of the directory while the pruner runs
ExternalRemove ==
    /\ pc \in {"pr_loop", "pr_stat", "pr_unlink"}
    /\ \E p \in DOMAIN fs :
        /\ p.parent = "."
        /\ p.kind = "file"
        /\ fs' = unlink(fs, p)
        /\ extRemoved' = extRemoved \cup {p}
    /\ UNCHANGED <<ctlVars, started, mainVars, resolverVars, fetchVars, submitVars, pruneVars, fs0>>

\* ------------------------------------------------------------------------
\* main (lines 130-139)
\* ------------------------------------------------------------------------

\* an except clause that logs and goes on to the pruner
MainCatch_continue ==
    /\ pc = "raised"
    /\ errLog' = errLog + 1
    /\ pc' = IF failed = "resolve" THEN "done" ELSE "pushed"
    /\ exitCode' = IF failed = "resolve" THEN 1 ELSE exitCode
    /\ UNCHANGED <<failed, err, started, args, resolverVars, fetchVars, submitVars, pruneVars, fsVars>>

\* an except clause that logs and returns 0
MainCatch_exit0 ==
    /\ pc = "raised"
    /\ errLog' = errLog + 1
    /\ exitCode' = 0
    /\ Goto("done")
    /\ UNCHANGED <<started, args, resolverVars, fetchVars, submitVars, pruneVars, fsVars>>

\* lines 136-138: except Exception: logging.error, return 1
MainCatch ==
    /\ pc = "raised"
    /\ errLog' = errLog + 1
    /\ exitCode' = 1
    /\ Goto("done")
    /\ UNCHANGED <<started, args, resolverVars, fetchVars, submitVars, pruneVars, fsVars>>

\* line 139: return 0
MainReturn ==
    /\ pc = "pruned"
    /\ exitCode' = 0
    /\ Goto("done")
    /\ UNCHANGED <<started, args, errLog, resolverVars, fetchVars, submitVars, pruneVars, fsVars>>

\* ------------------------------------------------------------------------
\* specifications
\* ------------------------------------------------------------------------

\* one run of main: every index page and response, a small save directory
InitMain == Init(FewWorlds, TmpDirs)

Next ==
    \/ ResolverFetch(Pages)
    \/ ResolverScan
    \/ DownloadGet(Responses)
    \/ DownloadOpen
    \/ DownloadRaiseForStatus
    \/ DownloadWrite
    \/ DownloadStreamError
    \/ DownloadReturn
    \/ QbLogin
    \/ QbEnsureDir
    \/ QbTorrentsAdd
    \/ PruneStart
    \/ PruneNext
    \/ PruneStat
    \/ PruneUnlink
    \/ PruneReturn
    \/ MainCatch
    \/ MainReturn

Spec == InitMain /\ [][Next]_vars

\* one run of main: every content of the save directory, few pages and responses
InitPrune == Init(Worlds(Entries, MaxFiles), FewTmpDirs)

NextPrune ==
    \/ ResolverFetch(FewPages)
    \/ ResolverScan
    \/ DownloadGet(FewResponses)
    \/ DownloadOpen
    \/ DownloadRaiseForStatus
    \/ DownloadWrite
    \/ DownloadStreamError
    \/ DownloadReturn
    \/ QbLogin
    \/ QbEnsureDir
    \/ QbTorrentsAdd
    \/ PruneStart
    \/ PruneNext
    \/ PruneStat
    \/ PruneUnlink
    \/ PruneReturn
    \/ MainCatch
    \/ MainReturn

SpecPrune == InitPrune /\ [][NextPrune]_vars

\* the same run with another process removing files of the save directory
SpecRace == InitPrune /\ [][NextPrune \/ ExternalRemove]_vars

\* ------------------------------------------------------------------------
\* properties
\* ------------------------------------------------------------------------
Stages == <<"resolve", "fetch", "submit", "prune">>

IsPrefix(s, t) == Len(s) <= Len(t) /\ s = SubSeq(t, 1, Len(s))

\* the stages were called in the fixed order, each at most once, each only after
\* the one before it returned, and none after a failure
StagesInOrder ==
    /\ IsPrefix(started, Stages)
    /\ Len(started) >= 2 => url # << >>
    /\ Len(started) >= 3 => torrent_path # << >>
    /\ Len(started) >= 4 => (Len(addCalls) = 1 /\ saveDir = "dir")
    /\ failed # "none" => (started # << >> /\ started[Len(started)] = failed)
    /\ pc = "start" => started = << >>

\* a stage that was not called has had no effect
NoEffectBeforeStart ==
    /\ Len(started) < 2 => (tmp = tmp0 /\ fn = << >>)
    /\ Len(started) < 3 => (addCalls = << >> /\ ~created /\ saveDir = saveDir0)
    /\ Len(started) < 4 => (unlinked = {} /\ fs = fs0 /\ prunedLog = 0 - 1)

\* C1 as stated: the stages run in the order resolver, fetcher, submitter, pruner,
\* each at most once and only after the earlier ones completed; after a failing
\* stage no later stage has any effect; and a run whose resolver, fetcher or
\* submitter failed has made no job-add call and deleted no file.
C1_Original ==
    /\ StagesInOrder
    /\ NoEffectBeforeStart
    /\ failed \in {"resolve", "fetch", "submit"} => (addCalls = << >> /\ unlinked = {} /\ fs = fs0)

\* C1 amended: the stages run in the order resolver, fetcher, submitter, pruner,
\* each at most once and only after the earlier ones completed; after a failing
\* stage no later stage has any effect: a run whose resolver or fetcher failed has
\* made no job-add call, and a run whose resolver, fetcher or submitter failed has
\* deleted no file (a failing submitter may have failed in the job-add call).
C1_StagesInOrder ==
    /\ StagesInOrder
    /\ NoEffectBeforeStart
    /\ failed \in {"resolve", "fetch"} => addCalls = << >>
    /\ failed \in {"resolve", "fetch", "submit"} => (unlinked = {} /\ fs = fs0)

\* the submitter failed in a run whose save directory holds a file the pruner
\* would have deleted
C1_Witness ==
    /\ pc = "done"
    /\ failed = "submit"
    /\ \E p \in DOMAIN fs : p = DumpOld /\ fs[p] < Now - args.retention

\* C2: main returns 0 exactly when all four stages returned, and 1 with exactly
\* one logged error when a stage raised; it returns nothing else.
C2_ExitCode ==
    /\ pc # "done" => exitCode = 0 - 1
    /\ pc = "done" =>
        /\ exitCode \in {0, 1}
        /\ exitCode = 0 <=> (failed = "none" /\ started = Stages /\ prunedLog >= 0)
        /\ failed # "none" => (exitCode = 1 /\ errLog = 1)
        /\ failed = "none" => errLog = 0

\* the last stage raised after the first three had returned
C2_Witness ==
    /\ pc = "done"
    /\ failed = "prune"
    /\ exitCode = 1

\* the first index of hrefs at which Matches holds, 0 if there is none
FirstIndex(hrefs, Matches(_)) ==
    IF \E i \in 1..Len(hrefs) : Matches(hrefs[i])
    THEN CHOOSE i \in 1..Len(hrefs) : Matches(hrefs[i]) /\ \A j \in 1..(i - 1) : ~Matches(hrefs[j])
    ELSE 0

C4_AbsoluteUrl ==
    pc = "resolved" =>
        LET h == html[FirstIndex(html, TORRENT_NAME_RE_search)] IN
        /\ IsAbsoluteUrl(url)
        /\ StartsWith(h, <<"/", "/">>) => url = <<"https:">> \o h
        /\ (StartsWith(h, <<"/">>) /\ ~StartsWith(h, <<"/", "/">>)) =>
               url = <<"https:", "/", "/", "meta.wikimedia.org">> \o h
        /\ IsAbsoluteUrl(h) => url = h

\* C5: when the API rejects the login, push_to_qb fails with that error, having
\* made no job-add call and not created the save directory.
C5_AuthRejected ==
    err = "LoginFailed" =>
        /\ pc \in {"raised", "done"}
        /\ failed = "submit"
        /\ addCalls = << >>
        /\ ~created
        /\ saveDir = saveDir0
        /\ started = <<"resolve", "fetch", "submit">>

\* the login was rejected in a run whose save directory did not exist
C5_Witness ==
    /\ pc = "done"
    /\ err = "LoginFailed"
    /\ saveDir0 = "absent"
    /\ saveDir = "absent"

\* C6: a missing save directory is created before the job-add call: every job-add
\* call is issued in a state where the directory exists, with that directory as
\* save path, the configured category, auto-management off and paused false; and
\* no job-add call is made when creating the directory failed.
C6_DirBeforeAdd ==
    /\ \A i \in 1..Len(addCalls) :
        /\ addCalls[i].save_dir_state = "dir"
        /\ addCalls[i].save_path = args.save_dir
        /\ addCalls[i].category = args.category
        /\ addCalls[i].use_auto_torrent_management = FALSE
        /\ addCalls[i].paused = FALSE
    /\ (addCalls # << >> /\ saveDir0 # "dir") => (created /\ saveDir0 = "absent")
    /\ pc = "qb_add" => saveDir = "dir"
    /\ (failed = "submit" /\ err \in {"PermissionError", "FileExistsError"}) =>
        (addCalls = << >> /\ saveDir = saveDir0)

\* the job-add call was issued after the missing directory had been created
C6_Witness ==
    /\ Len(addCalls) = 1
    /\ saveDir0 = "absent"
    /\ created
    /\ addCalls[1].category = "dumps"

\* what the pruner is to delete: a direct child that is a regular file, matches
\* the dump pattern, has no in-progress marker and is older than the cutoff
Eligible(p) ==
    /\ p.parent = "."
    /\ p.kind = "file"
    /\ DUMP_FILE_RE_match(p.name)
    /\ p.name[Len(p.name)] # ".!qB"

\* C7: when prune_old_dumps returns it has deleted exactly the eligible files
\* modified strictly before now - retention days and kept every other entry.
C7_PruneExact ==
    pc \in {"pruned", "done"} /\ failed = "none" =>
        /\ \A p \in DOMAIN fs0 :
            p \notin DOMAIN fs <=> (Eligible(p) /\ fs0[p] < Now - args.retention)
        /\ \A p \in DOMAIN fs : fs[p] = fs0[p]
        /\ unlinked = DOMAIN fs0 \ DOMAIN fs
        /\ prunedLog = Cardinality(unlinked)
        /\ args.retention = 30 =>
            /\ \A p \in {DumpOld, DumpNew, DumpUpper} \cap DOMAIN fs0 :
                p \in DOMAIN fs <=> fs0[p] \in {Now - 30, Now - 5}

\* retention 30: the dump modified 40 days ago is gone, the one modified 5 days
\* ago is still there
C7_Witness ==
    /\ pc = "pruned"
    /\ args.retention = 30
    /\ DOMAIN fs0 = {DumpOld, DumpNew}
    /\ fs0[DumpOld] = Now - 40
    /\ fs0[DumpNew] = Now - 5
    /\ DOMAIN fs = {DumpNew}

\* entries that age alone never condemns
Protected(p) ==
    \/ p.name[Len(p.name)] = ".!qB"
    \/ ~DUMP_FILE_RE_match(p.name)
    \/ p.kind # "file"
    \/ p.parent # "."

\* C8: whatever the retention and the modification times, files with the
\* in-progress marker, files not matching the dump pattern, non-regular entries
\* and files below a subdirectory are never deleted.
C8_NeverDeleted ==
    /\ \A p \in DOMAIN fs0 : Protected(p) => (p \in DOMAIN fs /\ p \notin unlinked)
    /\ \A p \in {DumpInProgress, DumpShortDate, Notes, SubDir, Nested} \cap DOMAIN fs0 :
        p \in DOMAIN fs /\ p \notin unlinked

\* negative retention: an in-progress file 40 days old survives a prune that
\* deleted the finished dump beside it
C8_Witness ==
    /\ pc = "pruned"
    /\ args.retention < 0
    /\ DumpInProgress \in DOMAIN fs
    /\ fs0[DumpInProgress] = Now - 40
    /\ unlinked = {DumpOld}

\* C9: a listed file that another process removes before the pruner reaches or
\* deletes it does not make the pruner fail: unless an unlink is refused, the
\* pruner goes through the remaining files, logs its count and main returns 0.
C9_BestEffort ==
    (pc = "done" /\ started = Stages /\ extRemoved # {} /\ err # "PermissionError") =>
        /\ failed = "none"
        /\ todo = {}
        /\ prunedLog >= 0
        /\ exitCode = 0

====
